---------------------------- MODULE Spec2Model ----------------------------
(***************************************************************************)
(* FenwickSet (core/src/fenwick.rs): a set of integers in [0, capacity)    *)
(* stored in a Fenwick tree, with its two cursors, run side by side with   *)
(* the reference set the repository's tests compare it against.            *)
(***************************************************************************)
EXTENDS Integers, Sequences, FiniteSets

\* ------------------------------------------------------------------ bounds
\* largest capacity a model run constructs
MaxCap == 6
\* nth's argument is a machine word, kept in two parts: its low 31 bits (lo)
\* and the bits above them (hi); MaxHi is the largest hi a run passes
MaxHi == 2
\* largest capacity of the runs that exercise only insert, remove and nth
\* (SpecWide)
WideCap == 10
\* largest length of a FenwickTree driven directly (SpecTree); 5 is the
\* smallest where lower_bound skips an extension and then commits a smaller one
TreeCap == 5
\* the absolute values of the reference array add up to at most TreeMaxTotal
TreeMaxTotal == 3

\* ------------------------------------------------------- program constants
\* with_capacity's ceiling
Ceiling == 50000000
\* the largest i32, the type nth converts its argument to
I32Max == 2147483647
I32Min == (-I32Max) - 1
\* the length of the tree of fenwick_tree_test::lower_bound
TestMax == 100

\* ------------------------------------------------------------------ inputs
Caps == 0..MaxCap
\* a capacity above the ceiling, which construction refuses
CapInputs == Caps \cup {Ceiling + 1}
\* elements passed to insert / remove / contains: in and out of the domain
Elems == 0..(MaxCap + 1)
\* usize values passed to nth, as [hi, lo]: value = hi * 2^31 + lo
Words == [hi : 0..MaxHi, lo : (0..(MaxCap + 1)) \cup {I32Max}]
USize(k) == [hi |-> 0, lo |-> k]
\* n >= m, for a word n and a small integer m
UGe(n, m) == n.hi > 0 \/ n.lo >= m

\* Option<usize>
None == <<>>
Some(x) == <<x>>

\* a call as the tests observe it: its name, its argument, what it returned
\* and what the reference returned
Call(name, arg, ret, refret) ==
    [name |-> name, arg |-> arg, ret |-> ret, refret |-> refret]

\* ------------------------------------------------------------ FenwickTree
FenwickTree_new(length) ==
    [inner |-> [i \in 0..length |-> 0], len |-> length]

\* idx & -idx, for idx > 0: the lowest set bit of idx
RECURSIVE lowbit(_)
lowbit(idx) == IF idx % 2 = 1 THEN 1 ELSE 2 * lowbit(idx \div 2)

RECURSIVE add_loop(_, _, _)
add_loop(t, idx, plus) ==
    IF idx <= t.len
    THEN add_loop([t EXCEPT !.inner[idx] = @ + plus], idx + lowbit(idx), plus)
    ELSE t

\* add that updates the position's own counter and none of its ancestors
add_no_ancestors(t, idx, plus) ==
    IF idx + 1 <= t.len THEN [t EXCEPT !.inner[idx + 1] = @ + plus] ELSE t

\* add that steps to the next index, not past the lowest set bit: it updates
\* every counter from the position on
RECURSIVE add_loop_by_one(_, _, _)
add_loop_by_one(t, idx, plus) ==
    IF idx <= t.len
    THEN add_loop_by_one([t EXCEPT !.inner[idx] = @ + plus], idx + 1, plus)
    ELSE t

add_by_one(t, idx, plus) == add_loop_by_one(t, idx + 1, plus)

add(t, idx, plus) == add_loop(t, idx + 1, plus)

RECURSIVE sum_loop(_, _, _)
sum_loop(t, idx, acc) ==
    IF idx > 0
    THEN sum_loop(t, idx - lowbit(idx), acc + t.inner[idx])
    ELSE acc

sum(t, range_max) == sum_loop(t, range_max, 0)

\* the sum_range that never subtracts the part before start
sum_range_no_subtract(t, start, end) == sum(t, end)

sum_range(t, start, end) ==
    LET sum1 == sum(t, end)
    IN  IF start = 0 THEN sum1 ELSE sum1 - sum(t, start)

\* the growth that stops at the length instead of passing it
RECURSIVE lower_bound_grow_strict(_, _)
lower_bound_grow_strict(t, k) ==
    IF k < t.len THEN lower_bound_grow_strict(t, k * 2) ELSE k

RECURSIVE lower_bound_grow(_, _)
lower_bound_grow(t, k) == IF k <= t.len THEN lower_bound_grow(t, k * 2) ELSE k

\* the search that stops, instead of halving the step, when an extension
\* exceeds the domain
RECURSIVE lower_bound_search_break(_, _, _, _)
lower_bound_search_break(t, k, cur, query) ==
    IF k > 0
    THEN LET k2  == k \div 2
             nxt == cur + k2
         IN  IF nxt > t.len
             THEN cur
             ELSE LET val == t.inner[nxt]
                  IN  IF val < query
                      THEN lower_bound_search_break(t, k2, cur + k2, query - val)
                      ELSE lower_bound_search_break(t, k2, cur, query)
    ELSE cur

RECURSIVE lower_bound_search(_, _, _, _)
lower_bound_search(t, k, cur, query) ==
    IF k > 0
    THEN LET k2  == k \div 2
             nxt == cur + k2
         IN  IF nxt > t.len
             THEN lower_bound_search(t, k2, cur, query)
             ELSE LET val == t.inner[nxt]
                  IN  IF val < query
                      THEN lower_bound_search(t, k2, cur + k2, query - val)
                      ELSE lower_bound_search(t, k2, cur, query)
    ELSE cur

\* the lower_bound that returns the count of positions, one more than the
\* position found
lower_bound_one_indexed(t, query) ==
    IF query <= 0 THEN 0
    ELSE lower_bound_search(t, lower_bound_grow(t, 1), 0, query) + 1

lower_bound(t, query) ==
    IF query <= 0 THEN 0
    ELSE lower_bound_search(t, lower_bound_grow(t, 1), 0, query)

\* ------------------------------------------- loop iterations of a tree call
\* the number of times the body of add's while loop runs
RECURSIVE add_loop_iterations(_, _)
add_loop_iterations(t, idx) ==
    IF idx <= t.len THEN 1 + add_loop_iterations(t, idx + lowbit(idx)) ELSE 0

add_iterations(t, idx) == add_loop_iterations(t, idx + 1)

\* the walk of sum that steps to the index before, not past the lowest set bit
RECURSIVE sum_iterations_by_one(_, _)
sum_iterations_by_one(t, idx) ==
    IF idx > 0 THEN 1 + sum_iterations_by_one(t, idx - 1) ELSE 0

\* the number of times the body of sum's while loop runs, from idx = range_max
RECURSIVE sum_iterations(_, _)
sum_iterations(t, idx) ==
    IF idx > 0 THEN 1 + sum_iterations(t, idx - lowbit(idx)) ELSE 0

\* lower_bound's first loop: while k <= self.len { k *= 2 }
RECURSIVE lower_bound_grow_iterations(_, _)
lower_bound_grow_iterations(t, k) ==
    IF k <= t.len THEN 1 + lower_bound_grow_iterations(t, k * 2) ELSE 0

\* lower_bound's second loop: while k > 0 { k /= 2; ... }
RECURSIVE lower_bound_search_iterations(_, _, _, _)
lower_bound_search_iterations(t, k, cur, query) ==
    IF k > 0
    THEN LET k2  == k \div 2
             nxt == cur + k2
         IN  IF nxt > t.len
             THEN 1 + lower_bound_search_iterations(t, k2, cur, query)
             ELSE LET val == t.inner[nxt]
                  IN  IF val < query
                      THEN 1 + lower_bound_search_iterations(t, k2, cur + k2,
                                                             query - val)
                      ELSE 1 + lower_bound_search_iterations(t, k2, cur, query)
    ELSE 0

\* all loop iterations of one call of lower_bound
lower_bound_iterations(t, query) ==
    IF query <= 0 THEN 0
    ELSE lower_bound_grow_iterations(t, 1)
         + lower_bound_search_iterations(t, lower_bound_grow(t, 1), 0, query)

\* ------------------------------------------------------------- FenwickSet
with_capacity(n) ==
    [inner |-> FenwickTree_new(n), num_elements |-> 0, max_val_excluded |-> n]

contains(s, elem) ==
    IF elem >= s.max_val_excluded THEN FALSE
    ELSE sum_range(s.inner, elem, elem + 1) = 1

\* insert that does not check that the element is absent
insert_unchecked(s, elem) ==
    IF elem >= s.max_val_excluded
    THEN [set |-> s, ret |-> FALSE]
    ELSE [set |-> [s EXCEPT !.inner = add(@, elem, 1),
                            !.num_elements = @ + 1],
          ret |-> TRUE]

\* insert that does not count the new element
insert_no_count(s, elem) ==
    IF elem >= s.max_val_excluded \/ contains(s, elem)
    THEN [set |-> s, ret |-> FALSE]
    ELSE [set |-> [s EXCEPT !.inner = add(@, elem, 1)], ret |-> TRUE]

insert(s, elem) ==
    IF elem >= s.max_val_excluded \/ contains(s, elem)
    THEN [set |-> s, ret |-> FALSE]
    ELSE [set |-> [s EXCEPT !.inner = add(@, elem, 1),
                            !.num_elements = @ + 1],
          ret |-> TRUE]

\* remove that does not count the removal
remove_no_count(s, elem) ==
    IF elem >= s.max_val_excluded \/ ~contains(s, elem) \/ s.num_elements = 0
    THEN [set |-> s, ret |-> FALSE]
    ELSE [set |-> [s EXCEPT !.inner = add(@, elem, -1)], ret |-> TRUE]

\* remove that does not check that the element is present
remove_unchecked(s, elem) ==
    IF elem >= s.max_val_excluded \/ s.num_elements = 0
    THEN [set |-> s, ret |-> FALSE]
    ELSE [set |-> [s EXCEPT !.inner = add(@, elem, -1),
                            !.num_elements = @ - 1],
          ret |-> TRUE]

remove(s, elem) ==
    IF elem >= s.max_val_excluded \/ ~contains(s, elem) \/ s.num_elements = 0
    THEN [set |-> s, ret |-> FALSE]
    ELSE [set |-> [s EXCEPT !.inner = add(@, elem, -1),
                            !.num_elements = @ - 1],
          ret |-> TRUE]

RECURSIVE from_range_loop(_, _, _)
from_range_loop(s, i, end) ==
    IF i < end THEN from_range_loop(insert(s, i).set, i + 1, end) ELSE s

\* from_range that leaves out the first value of the range
from_range_skip_first(start, end) ==
    from_range_loop(with_capacity(end), start + 1, end)

from_range(start, end) == from_range_loop(with_capacity(end), start, end)

len(s) == s.num_elements

\* `n as i32`: the low 32 bits of the word, read as two's complement
AsI32(n) == IF n.hi % 2 = 0 THEN n.lo ELSE (n.lo - I32Max) - 1

\* `n as i32 + 1` overflows i32
nth_overflows(n) == AsI32(n) = I32Max

\* x + 1 in i32 where overflow checks are off (wrapping)
wrapping_inc(x) == IF x = I32Max THEN I32Min ELSE x + 1

\* nth that passes n, not n + 1, to lower_bound
nth_no_increment(s, n) ==
    LET res == lower_bound(s.inner, AsI32(n))
    IN  IF res >= s.max_val_excluded THEN None ELSE Some(res)

nth(s, n) ==
    LET res == lower_bound(s.inner, wrapping_inc(AsI32(n)))
    IN  IF res >= s.max_val_excluded THEN None ELSE Some(res)

\* the values rng.gen_range(low, high) may return
gen_range(low, high) == low..(high - 1)

\* select that ignores the drawn index
select_first(s, num) ==
    IF s.num_elements = 0 THEN None ELSE nth(s, USize(0))

\* select, given the index num that rng.gen_range(0, num_elements) returns
select(s, num) ==
    IF s.num_elements = 0 THEN None ELSE nth(s, USize(num))

\* ---------------------------------------------------------------- cursors
\* the cursor step that yields the 1-indexed position
RECURSIVE fws_iter_next_one_indexed(_, _, _)
fws_iter_next_one_indexed(fwt, current, before) ==
    IF current < fwt.len
    THEN LET c    == current + 1
             s    == sum(fwt, c)
             diff == s - before
         IN  IF diff = 1
             THEN [ret |-> Some(c), current |-> c, before |-> s]
             ELSE fws_iter_next_one_indexed(fwt, c, s)
    ELSE [ret |-> None, current |-> current, before |-> before]

RECURSIVE fws_iter_next(_, _, _)
fws_iter_next(fwt, current, before) ==
    IF current < fwt.len
    THEN LET c    == current + 1
             s    == sum(fwt, c)
             diff == s - before
         IN  IF diff = 1
             THEN [ret |-> Some(c - 1), current |-> c, before |-> s]
             ELSE fws_iter_next(fwt, c, s)
    ELSE [ret |-> None, current |-> current, before |-> before]

\* FwsIter / FwsIntoIter as built by iter() / into_iter()
new_cursor(kind, fwt) ==
    [kind |-> kind, fwt |-> fwt, current |-> 0, before |-> 0,
     out |-> <<>>, done |-> FALSE]

NoCursor == new_cursor("none", FenwickTree_new(0))

\* -------------------------------------------------------------------- state
VARIABLES
    status,   \* "none": nothing built; "live"; "consumed": moved into a
              \* FwsIntoIter; "panicked": the program aborted
    fws,      \* the FenwickSet
    ref,      \* the reference set of the differential tests
    cursor,   \* the cursor in use, with the values it has yielded (out)
    op,       \* the last call: its name, argument and results
    tree,     \* a FenwickTree driven directly, as fenwick_tree_test does
    array     \* the reference array: per position, the total of its deltas

vars == <<status, fws, ref, cursor, op, tree, array>>

\* the array of length n, positions 0..n-1, all zero
zeros(n) == [i \in 0..(n - 1) |-> 0]

Init ==
    /\ status = "none"
    /\ fws = with_capacity(0)
    /\ ref = {}
    /\ cursor = NoCursor
    /\ op = Call("none", 0, FALSE, FALSE)
    /\ tree = FenwickTree_new(0)
    /\ array = zeros(0)

Panic(name, arg) ==
    /\ status' = "panicked"
    /\ op' = Call(name, arg, FALSE, FALSE)
    /\ UNCHANGED <<fws, ref, cursor>>

\* with_capacity's assert!: the requested capacity is within the ceiling
within_ceiling_exclusive(n) == n < Ceiling

within_ceiling(n) == n <= Ceiling

\* op.ret is the number of counters the call allocated: the assert! comes
\* before FenwickTree::new, so a refused call has allocated none
WithCapacity(n) ==
    /\ status = "none"
    /\ IF within_ceiling(n)
       THEN /\ status' = "live"
            /\ fws' = with_capacity(n)
            /\ ref' = {}
            /\ op' = Call("with_capacity", n,
                          Cardinality(DOMAIN with_capacity(n).inner.inner),
                          TRUE)
            /\ UNCHANGED cursor
       ELSE /\ status' = "panicked"
            /\ op' = Call("with_capacity", n, 0, FALSE)
            /\ UNCHANGED <<fws, ref, cursor>>
    /\ UNCHANGED <<tree, array>>

FromRange(a, b) ==
    /\ status = "none"
    /\ IF within_ceiling(b)
       THEN /\ status' = "live"
            /\ fws' = from_range(a, b)
            /\ ref' = {v \in Elems : a <= v /\ v < b}
            /\ op' = Call("from_range", <<a, b>>, TRUE, TRUE)
            /\ UNCHANGED cursor
       ELSE Panic("from_range", <<a, b>>)
    /\ UNCHANGED <<tree, array>>

\* the set can be called: it exists and no cursor borrows it
Usable == status = "live" /\ cursor.kind = "none"

\* the differential tests drive the reference set with values of the domain
InDomain(v) == v < fws.max_val_excluded

Insert(v) ==
    /\ Usable
    /\ LET r == insert(fws, v)
       IN  /\ fws' = r.set
           /\ op' = Call("insert", v, r.ret, v \notin ref)
    /\ ref' = IF InDomain(v) THEN ref \cup {v} ELSE ref
    /\ UNCHANGED <<status, cursor>>
    /\ UNCHANGED <<tree, array>>

Remove(v) ==
    /\ Usable
    /\ LET r == remove(fws, v)
       IN  /\ fws' = r.set
           /\ op' = Call("remove", v, r.ret, v \in ref)
    /\ ref' = IF InDomain(v) THEN ref \ {v} ELSE ref
    /\ UNCHANGED <<status, cursor>>
    /\ UNCHANGED <<tree, array>>

Contains(v) ==
    /\ Usable
    /\ op' = Call("contains", v, contains(fws, v), v \in ref)
    /\ UNCHANGED <<status, fws, ref, cursor>>
    /\ UNCHANGED <<tree, array>>

LenCall ==
    /\ Usable
    /\ op' = Call("len", 0, len(fws), Cardinality(ref))
    /\ UNCHANGED <<status, fws, ref, cursor>>
    /\ UNCHANGED <<tree, array>>

\* nth where `n as i32 + 1` does not overflow, or wraps (overflow checks off)
Nth(n) ==
    /\ Usable
    /\ op' = Call("nth", n, nth(fws, n), FALSE)
    /\ UNCHANGED <<status, fws, ref, cursor>>
    /\ UNCHANGED <<tree, array>>

\* nth where `n as i32 + 1` overflows and overflow checks are on: the
\* addition panics
NthOverflow(n) ==
    /\ Usable
    /\ nth_overflows(n)
    /\ Panic("nth", n)
    /\ UNCHANGED <<tree, array>>

SelectEmpty ==
    /\ Usable
    /\ fws.num_elements = 0
    /\ op' = Call("select", None, select(fws, 0), FALSE)
    /\ UNCHANGED <<status, fws, ref, cursor>>
    /\ UNCHANGED <<tree, array>>

Select(num) ==
    /\ Usable
    /\ fws.num_elements # 0
    /\ num \in gen_range(0, fws.num_elements)
    /\ op' = Call("select", Some(num), select(fws, num), FALSE)
    /\ UNCHANGED <<status, fws, ref, cursor>>
    /\ UNCHANGED <<tree, array>>

Iter ==
    /\ Usable
    /\ cursor' = new_cursor("iter", fws.inner)
    /\ op' = Call("iter", 0, FALSE, FALSE)
    /\ UNCHANGED <<status, fws, ref>>
    /\ UNCHANGED <<tree, array>>

IntoIter ==
    /\ Usable
    /\ status' = "consumed"
    /\ cursor' = new_cursor("into_iter", fws.inner)
    /\ op' = Call("into_iter", 0, FALSE, FALSE)
    /\ UNCHANGED <<fws, ref>>
    /\ UNCHANGED <<tree, array>>

IterNext ==
    /\ cursor.kind # "none"
    /\ LET r == fws_iter_next(cursor.fwt, cursor.current, cursor.before)
       IN  /\ cursor' = [cursor EXCEPT
                            !.current = r.current,
                            !.before = r.before,
                            !.out = IF r.ret = None THEN @ ELSE @ \o r.ret,
                            !.done = (r.ret = None)]
           /\ op' = Call("next", 0, r.ret, FALSE)
    /\ UNCHANGED <<status, fws, ref>>
    /\ UNCHANGED <<tree, array>>

\* the borrowing cursor goes out of scope
DropIter ==
    /\ cursor.kind = "iter"
    /\ cursor' = NoCursor
    /\ op' = Call("drop", 0, FALSE, FALSE)
    /\ UNCHANGED <<status, fws, ref>>
    /\ UNCHANGED <<tree, array>>

Next ==
    \/ \E n \in CapInputs : WithCapacity(n)
    \/ \E a \in Elems, b \in CapInputs : FromRange(a, b)
    \/ \E v \in Elems : Insert(v)
    \/ \E v \in Elems : Remove(v)
    \/ \E v \in Elems : Contains(v)
    \/ LenCall
    \/ \E n \in Words : Nth(n)
    \/ \E n \in Words : NthOverflow(n)
    \/ SelectEmpty
    \/ \E num \in 0..MaxCap : Select(num)
    \/ Iter
    \/ IntoIter
    \/ IterNext
    \/ DropIter

Spec == Init /\ [][Next]_vars

\* nth on larger capacities: construction, insert and remove of the values of
\* the domain, and nth of any k up to WideCap.
WideElems == 0..WideCap

NextWide ==
    \/ \E n \in WideElems : WithCapacity(n)
    \/ \E v \in WideElems : InDomain(v) /\ Insert(v)
    \/ \E v \in WideElems : InDomain(v) /\ Remove(v)
    \/ \E k \in WideElems : Nth(USize(k))

SpecWide == Init /\ [][NextWide]_vars

\* ------------------------------------------------- the FenwickTree directly
\* fenwick_tree_test drives a FenwickTree next to the totals it expects
Deltas == {-1, 1, 2}
Queries == (-1)..(TreeMaxTotal + 1)

Abs(x) == IF x < 0 THEN -x ELSE x

\* array[a] + ... + array[b - 1]
RECURSIVE range_total(_, _, _)
range_total(arr, a, b) ==
    IF b <= a THEN 0 ELSE range_total(arr, a, b - 1) + arr[b - 1]

\* |array[0]| + ... + |array[n - 1]|
RECURSIVE magnitude(_, _)
magnitude(arr, n) ==
    IF n = 0 THEN 0 ELSE magnitude(arr, n - 1) + Abs(arr[n - 1])

TreeSetIdle == UNCHANGED <<fws, ref, cursor>>

TreeNew(n) ==
    /\ status = "none"
    /\ status' = "tree"
    /\ tree' = FenwickTree_new(n)
    /\ array' = zeros(n)
    /\ op' = Call("new", n, FALSE, FALSE)
    /\ TreeSetIdle

TreeAdd(idx, plus) ==
    /\ status = "tree"
    /\ idx < tree.len
    /\ LET arr == [array EXCEPT ![idx] = @ + plus]
       IN  /\ magnitude(arr, tree.len) <= TreeMaxTotal
           /\ array' = arr
    /\ tree' = add(tree, idx, plus)
    /\ op' = Call("add", <<idx, plus>>, FALSE, FALSE)
    /\ UNCHANGED status
    /\ TreeSetIdle

TreeSum(range_max) ==
    /\ status = "tree"
    /\ range_max <= tree.len
    /\ op' = Call("sum", range_max, sum(tree, range_max),
                  range_total(array, 0, range_max))
    /\ UNCHANGED <<status, tree, array>>
    /\ TreeSetIdle

TreeSumRange(start, end) ==
    /\ status = "tree"
    /\ start <= end
    /\ end <= tree.len
    /\ op' = Call("sum_range", <<start, end>>, sum_range(tree, start, end),
                  range_total(array, start, end))
    /\ UNCHANGED <<status, tree, array>>
    /\ TreeSetIdle

TreeLowerBound(query) ==
    /\ status = "tree"
    /\ op' = Call("lower_bound", query, lower_bound(tree, query), FALSE)
    /\ UNCHANGED <<status, tree, array>>
    /\ TreeSetIdle

NextTree ==
    \/ \E n \in 0..TreeCap : TreeNew(n)
    \/ \E idx \in 0..TreeCap, plus \in Deltas : TreeAdd(idx, plus)
    \/ \E range_max \in 0..TreeCap : TreeSum(range_max)
    \/ \E start \in 0..TreeCap, end \in 0..TreeCap : TreeSumRange(start, end)
    \/ \E query \in Queries : TreeLowerBound(query)

SpecTree == Init /\ [][NextTree]_vars

\* ----------------------------------------------------- what the claims use
\* the elements of a finite set of integers, ascending
RECURSIVE SortedSeq(_)
SortedSeq(S) ==
    IF S = {} THEN <<>>
    ELSE LET m == CHOOSE x \in S : \A y \in S : x <= y
         IN  <<m>> \o SortedSeq(S \ {m})

\* the per-position value: the sum of the deltas applied at v
PointValue(s, v) == sum_range(s.inner, v, v + 1)

\* the values contains() reports
Present(s) == {v \in 0..s.max_val_excluded : contains(s, v)}

\* a whole traversal by a fresh cursor: next() until it returns None
RECURSIVE drain(_, _, _, _)
drain(fwt, current, before, out) ==
    LET r == fws_iter_next(fwt, current, before)
    IN  IF r.ret = None THEN out
        ELSE drain(fwt, r.current, r.before, out \o r.ret)

collect(fwt) == drain(fwt, 0, 0, <<>>)

\* the set exists (a cursor may be borrowing it)
Live == status = "live"

\* C1: run side by side with a reference set under the same insert / remove
\* calls with values of the domain, the FenwickSet returns the same booleans,
\* reports the same membership for every value, and iterates to the reference
\* set's elements in ascending order.
C1_SameAsReference ==
    Live =>
        /\ (op.name \in {"insert", "remove"} /\ op.arg < fws.max_val_excluded)
              => op.ret = op.refret
        /\ \A v \in Elems : contains(fws, v) = (v \in ref)
        /\ collect(fws.inner) = SortedSeq(ref)

C1_Witness ==
    /\ Live
    /\ op.name = "remove" /\ op.ret = TRUE
    /\ Cardinality(ref) >= 2
    /\ \E v \in 0..(fws.max_val_excluded - 1) : v \notin ref /\ v + 1 \in ref

\* C2: insert(v) returns true exactly when v < capacity and v is absent; a
\* successful insert makes v present, raises len() by exactly 1 and changes no
\* other membership; a failed insert leaves the counters and len() unchanged;
\* a second insert(v) returns false and leaves the cardinality unchanged.
C2_Insert ==
    Live =>
        /\ \A v \in Elems :
              LET r == insert(fws, v)
                  again == insert(r.set, v)
              IN  /\ r.ret = (v < fws.max_val_excluded /\ ~contains(fws, v))
                  /\ r.ret =>
                        /\ contains(r.set, v)
                        /\ len(r.set) = len(fws) + 1
                        /\ \A u \in Elems \ {v} :
                              contains(r.set, u) = contains(fws, u)
                  /\ ~r.ret => r.set = fws
                  /\ again.ret = FALSE
                  /\ len(again.set) = len(r.set)
        /\ (op.name = "insert" /\ op.ret) => contains(fws, op.arg)

C2_Witness ==
    /\ Live
    /\ op.name = "insert" /\ op.ret = TRUE
    /\ len(fws) >= 2
    /\ \E v \in Elems : v >= fws.max_val_excluded /\ ~insert(fws, v).ret

\* C3: remove(v) returns true exactly when v is present; a successful remove
\* makes v absent, lowers len() by exactly 1 and changes no other membership;
\* removing an absent value, a value >= capacity, or from an empty set returns
\* false and leaves the counters and len() unchanged.
C3_Remove ==
    Live =>
        /\ \A v \in Elems :
              LET r == remove(fws, v)
              IN  /\ r.ret = contains(fws, v)
                  /\ r.ret =>
                        /\ ~contains(r.set, v)
                        /\ len(r.set) = len(fws) - 1
                        /\ \A u \in Elems \ {v} :
                              contains(r.set, u) = contains(fws, u)
                  /\ ~r.ret => r.set = fws
                  /\ (v >= fws.max_val_excluded \/ len(fws) = 0) => ~r.ret
        /\ (op.name = "remove" /\ op.ret) => ~contains(fws, op.arg)

C3_Witness ==
    /\ Live
    /\ op.name = "remove" /\ op.ret = TRUE
    /\ len(fws) >= 1
    /\ \E v \in Elems : v < fws.max_val_excluded /\ ~remove(fws, v).ret

\* C4: len() equals the number of positions of [0, capacity) whose
\* per-position value is exactly 1; 0 <= len() <= capacity, and remove
\* decrements only a positive count.
C4_Cardinality ==
    Live =>
        /\ len(fws) = Cardinality({v \in 0..(fws.max_val_excluded - 1) :
                                      PointValue(fws, v) = 1})
        /\ 0 <= len(fws) /\ len(fws) <= fws.max_val_excluded
        /\ \A v \in Elems : remove(fws, v).ret => fws.num_elements >= 1
        /\ op.name = "len" => op.ret = op.refret

C4_Witness ==
    /\ Live
    /\ op.name = "remove" /\ op.ret = TRUE
    /\ len(fws) >= 2 /\ len(fws) < fws.max_val_excluded

\* with every odd integer below 1000 inserted (capacity 1000)
\* the loop `for i in (lo..hi).filter(odd) { insert(i) }`, split in halves;
\* no value at or above the capacity is inserted
RECURSIVE insert_odds(_, _, _)
insert_odds(s, lo, hi) ==
    IF hi <= lo \/ s.max_val_excluded <= lo THEN s
    ELSE IF hi = lo + 1 THEN (IF lo % 2 = 1 THEN insert(s, lo).set ELSE s)
    ELSE LET mid == (lo + hi) \div 2
         IN  insert_odds(insert_odds(s, lo, mid), mid, hi)

OddsBelow1000 == insert_odds(with_capacity(1000), 0, 1000)

OddsExample ==
    /\ nth(OddsBelow1000, USize(9)) = Some(19)
    /\ nth(OddsBelow1000, USize(499)) = Some(999)

\* C5: for every k with 0 <= k < len(), nth(k) is Some(x) with x the k-th
\* smallest present value (exactly k present values are below x), which is the
\* (k+1)-th value of an ascending traversal; with the odd integers below 1000
\* inserted, nth(9) = 19 and nth(499) = 999.
C5_Nth ==
    Live =>
        /\ LET P == Present(fws)
               seq == collect(fws.inner)
           IN  /\ Len(seq) = len(fws)
               /\ \A k \in 0..(len(fws) - 1) :
                     LET r == nth(fws, USize(k))
                     IN  /\ r # None
                         /\ r[1] \in P
                         /\ Cardinality({y \in P : y < r[1]}) = k
                         /\ r[1] = seq[k + 1]
        /\ (op.name = "nth" /\ op.arg.hi = 0 /\ op.arg.lo < len(fws))
              => op.ret = Some(SortedSeq(ref)[op.arg.lo + 1])
        /\ OddsExample

\* nth found a value past a gap, in a domain whose size is not a power of two
\* and where the search skipped a step before committing a smaller one
C5_Witness ==
    /\ Live
    /\ fws.max_val_excluded = 10
    /\ op.name = "nth" /\ op.arg = USize(2) /\ op.ret = Some(9)

\* C8: select returns None exactly when the set is empty, and then draws no
\* index; otherwise, for every index the random source may return in
\* [0, len()), it returns Some(v) with contains(v) true.
C8_Select ==
    Live =>
        /\ len(fws) = 0 => select(fws, 0) = None
        /\ \A r \in gen_range(0, len(fws)) :
              LET x == select(fws, r)
              IN  x # None /\ contains(fws, x[1])
        /\ op.name = "select" =>
              /\ (op.ret = None) = (len(fws) = 0)
              /\ (op.arg = None) = (len(fws) = 0)
              /\ op.ret # None => contains(fws, op.ret[1])

C8_Witness ==
    /\ Live
    /\ op.name = "select" /\ op.arg = Some(1) /\ op.ret # None
    /\ len(fws) < fws.max_val_excluded
    /\ ~contains(fws, 0)

\* C9: in every non-empty state, the map from the drawn index r in [0, len())
\* to the value select returns is a bijection onto the present values.
C9_SelectBijection ==
    (Live /\ len(fws) # 0) =>
        LET R == gen_range(0, len(fws))
        IN  /\ \A r \in R : select(fws, r) # None
            /\ \A r1, r2 \in R : select(fws, r1) = select(fws, r2) => r1 = r2
            /\ {select(fws, r)[1] : r \in R} = Present(fws)
            /\ \A v \in Present(fws) :
                  Cardinality({r \in R : select(fws, r) = Some(v)}) = 1

C9_Witness ==
    /\ Live
    /\ op.name = "select" /\ op.ret # None
    /\ len(fws) >= 3
    /\ fws.max_val_excluded - len(fws) >= 3

\* C6: for every k of the argument type with k >= len(), nth(k) returns None
\* and does not abort.
C6_NthBeyondLen ==
    /\ Live => \A n \in Words : UGe(n, len(fws)) => nth(fws, n) = None
    /\ (op.name = "nth" /\ UGe(op.arg, len(fws)))
          => (status = "live" /\ op.ret = None)

\* C7: either cursor yields every present value exactly once, in strictly
\* ascending order, no absent value, and then ends; a value v is yielded
\* exactly when the prefix sum increases by exactly 1 from position v to v + 1;
\* the borrowing traversal leaves the counters and the cardinality unchanged.
C7_Cursors ==
    /\ Live =>
          LET seq == collect(fws.inner)
          IN  /\ seq = SortedSeq(ref)
              /\ \A v \in 0..(fws.max_val_excluded - 1) :
                    (\E i \in 1..Len(seq) : seq[i] = v)
                       <=> (sum(fws.inner, v + 1) - sum(fws.inner, v) = 1)
    /\ cursor.kind # "none" =>
          LET all == SortedSeq(ref)
              n   == Len(cursor.out)
          IN  /\ n <= Len(all)
              /\ cursor.out = SubSeq(all, 1, n)
              /\ cursor.done => cursor.out = all
              /\ (op.name = "next" /\ op.ret = None) => cursor.done
              /\ (op.name = "next" /\ op.ret # None)
                    => (n >= 1 /\ op.ret = Some(cursor.out[n]))
    /\ cursor.kind = "iter" =>
          /\ Live
          /\ cursor.fwt = fws.inner
          /\ len(fws) = Cardinality(ref)
    /\ cursor.kind = "into_iter" => status = "consumed"

C7_Witness ==
    /\ cursor.kind = "into_iter"
    /\ cursor.done
    /\ op.name = "next" /\ op.ret = None
    /\ Len(cursor.out) >= 2
    /\ Len(cursor.out) < cursor.fwt.len
    /\ cursor.out[1] > 0

\* C10: from_range(a..b), b within the ceiling, yields a set of capacity
\* exactly b (insert of any v >= b returns false) in which contains(v) is true
\* exactly for a <= v < b, and whose len() is the number of integers in [a, b).
C10_FromRange ==
    (Live /\ op.name = "from_range") =>
        LET a == op.arg[1]
            b == op.arg[2]
        IN  /\ fws.max_val_excluded = b
            /\ fws.inner.len = b
            /\ \A v \in Elems : v >= b => ~insert(fws, v).ret
            /\ \A v \in Elems : contains(fws, v) = (a <= v /\ v < b)
            /\ len(fws) = Cardinality(a..(b - 1))

C10_Witness ==
    /\ Live
    /\ op.name = "from_range"
    /\ op.arg[1] >= 2
    /\ op.arg[2] >= op.arg[1] + 3

\* C11: with_capacity(n) aborts exactly when n > 50,000,000, before any
\* counter is allocated and without clamping n; for n <= 50,000,000 it returns
\* an empty set of capacity exactly n with n + 1 zero counters.
C11_WithCapacity ==
    /\ within_ceiling(0)
    /\ within_ceiling(50000000 - 1)
    /\ within_ceiling(50000000)
    /\ ~within_ceiling(50000000 + 1)
    /\ op.name = "with_capacity" =>
          LET n == op.arg
          IN  /\ (status = "panicked") = (n > 50000000)
              /\ status = "panicked" =>
                    /\ op.ret = 0
                    /\ fws = with_capacity(0) /\ ref = {}
              /\ status # "panicked" =>
                    /\ Live
                    /\ len(fws) = 0
                    /\ \A v \in Elems : ~contains(fws, v)
                    /\ fws.max_val_excluded = n
                    /\ fws.inner.len = n
                    /\ DOMAIN fws.inner.inner = 0..n
                    /\ op.ret = n + 1
                    /\ \A i \in 0..n : fws.inner.inner[i] = 0
                    /\ collect(fws.inner) = <<>>

C11_Witness ==
    /\ op.name = "with_capacity"
    /\ status = "panicked"
    /\ op.arg = 50000001

\* C12: construction above the ceiling is the only failure: no other call
\* aborts or overflows, for any argument value of its type.
C12_OnlyConstructionFails ==
    /\ status = "panicked" => op.name \in {"with_capacity", "from_range"}
    /\ op.name = "nth" => ~nth_overflows(op.arg)

\* C13: for every v in [0, capacity) the per-position value is 0 or 1: no
\* position is incremented twice without a decrement between, nor decremented
\* while 0.
C13_Binary ==
    Live =>
        /\ \A v \in 0..(fws.max_val_excluded - 1) : PointValue(fws, v) \in {0, 1}
        /\ \A v \in Elems :
              /\ insert(fws, v).ret => PointValue(fws, v) = 0
              /\ remove(fws, v).ret => PointValue(fws, v) = 1

\* a second insert of a present value, and a remove of an absent one, were
\* attempted
C13_Witness ==
    /\ Live
    /\ op.name = "insert" /\ op.ret = FALSE
    /\ op.arg < fws.max_val_excluded
    /\ PointValue(fws, op.arg) = 1
    /\ \E v \in 0..(fws.max_val_excluded - 1) :
          PointValue(fws, v) = 0 /\ ~remove(fws, v).ret

\* C14: after any sequence of add(index, delta) with index in [0, n), sum(b)
\* for every 0 <= b <= n is the total of the deltas applied at positions < b
\* (so sum(0) = 0), and sum_range(a..b) for every 0 <= a <= b <= n is the total
\* of the deltas applied at positions in [a, b).
C14_Sums ==
    status = "tree" =>
        /\ sum(tree, 0) = 0
        /\ \A b \in 0..tree.len : sum(tree, b) = range_total(array, 0, b)
        /\ \A b \in 0..tree.len : \A a \in 0..b :
              sum_range(tree, a, b) = range_total(array, a, b)
        /\ op.name \in {"sum", "sum_range"} => op.ret = op.refret

\* a range that starts after a positive position and holds a negative one
C14_Witness ==
    /\ status = "tree"
    /\ op.name = "sum_range"
    /\ op.arg[1] > 0
    /\ op.arg[2] = tree.len
    /\ range_total(array, 0, op.arg[1]) > 0
    /\ \E i \in op.arg[1]..(op.arg[2] - 1) : array[i] < 0
    /\ op.ret = range_total(array, op.arg[1], op.arg[2])
    /\ op.ret # sum(tree, op.arg[2])

\* every per-position value is non-negative
NonNegative == \A i \in 0..(tree.len - 1) : array[i] >= 0

\* the minimum 0-indexed x with arr[0] + ... + arr[x] >= q, or n without one
min_position(arr, n, q) ==
    LET reach == {x \in 0..(n - 1) : range_total(arr, 0, x + 1) >= q}
    IN  IF reach = {} THEN n ELSE CHOOSE x \in reach : \A y \in reach : x <= y

\* fenwick_tree_test::lower_bound: the tree of length 100 holding x at x
RECURSIVE add_each(_, _, _)
add_each(t, lo, hi) ==
    IF hi <= lo \/ t.len <= lo THEN t
    ELSE IF hi = lo + 1 THEN add(t, lo, lo)
    ELSE LET mid == (lo + hi) \div 2
         IN  add_each(add_each(t, lo, mid), mid, hi)

TestTree == add_each(FenwickTree_new(TestMax), 0, TestMax)

TestArray == [x \in 0..(TestMax - 1) |-> x]

TestTreeExample ==
    /\ \A x \in 1..(TestMax - 1) :
          /\ lower_bound(TestTree, range_total(TestArray, 0, x + 1)) = x
          /\ \A q \in {range_total(TestArray, 0, x) + 1,
                        range_total(TestArray, 0, x + 1)} :
                lower_bound(TestTree, q) = min_position(TestArray, TestMax, q)
    /\ lower_bound(TestTree, range_total(TestArray, 0, TestMax) + 10) = TestMax

\* C15: on a tree of any length n (power of two or not) whose per-position
\* values are all non-negative, for every query q > 0 lower_bound(q) is the
\* minimum 0-indexed position x with array[0] + ... + array[x] >= q, and n
\* when the total of all positions is less than q; an extension skipped for
\* exceeding n, with the step still halved, never makes the search miss it.
C15_LowerBound ==
    /\ TestTreeExample
    /\ (status = "tree" /\ NonNegative) =>
          /\ \A q \in 1..(TreeMaxTotal + 1) :
                lower_bound(tree, q) = min_position(array, tree.len, q)
          /\ (op.name = "lower_bound" /\ op.arg > 0)
                => op.ret = min_position(array, tree.len, op.arg)

\* length 5, not a power of two, total below the query: the search commits 4,
\* skips the extension to 6 and then commits 5; stopping at the skip would
\* have returned 4. (In TestTree the positions 96..99 are found the same way.)
C15_Witness ==
    /\ status = "tree"
    /\ NonNegative
    /\ tree.len = 5
    /\ op.name = "lower_bound"
    /\ op.arg > 0
    /\ range_total(array, 0, tree.len) > 0
    /\ range_total(array, 0, tree.len) < op.arg
    /\ op.ret = tree.len
    /\ lower_bound_search_break(tree, lower_bound_grow(tree, 1), 0, op.arg)
          = tree.len - 1
    /\ lower_bound(TestTree, range_total(TestArray, 0, TestMax - 1)) = TestMax - 2
    /\ lower_bound_search_break(TestTree, lower_bound_grow(TestTree, 1), 0,
                                range_total(TestArray, 0, TestMax - 1))
          # TestMax - 2

\* the counts i, 1 <= i <= n, whose prefix arr[0] + ... + arr[i - 1] is >= q
counts_reaching(arr, n, q) == {i \in 1..n : range_total(arr, 0, i) >= q}

min_count(arr, n, q) ==
    CHOOSE i \in counts_reaching(arr, n, q) :
        \A j \in counts_reaching(arr, n, q) : i <= j

RECURSIVE Log2Floor(_)
Log2Floor(n) == IF n < 2 THEN 0 ELSE 1 + Log2Floor(n \div 2)

\* the loops of add, sum and lower_bound on t, each within floor(log2(n)) + 2
LoopsBounded(t) ==
    LET B == Log2Floor(t.len) + 2
    IN  /\ \A idx \in 0..(t.len - 1) : add_iterations(t, idx) <= B
        /\ \A range_max \in 0..t.len : sum_iterations(t, range_max) <= B
        /\ \A q \in Queries :
              /\ q > 0 => lower_bound_grow_iterations(t, 1) <= B
              /\ lower_bound_search_iterations(t, lower_bound_grow(t, 1), 0, q)
                    <= B
              /\ lower_bound_iterations(t, q) <= (2 * Log2Floor(t.len)) + 3

\* the same on an untouched tree of every length up to TestMax
LoopsExample == \A n \in 1..TestMax : LoopsBounded(FenwickTree_new(n))

\* a cursor has advanced `current` times: never more than its tree's length
CursorBounded ==
    cursor.kind # "none" =>
        /\ cursor.current <= cursor.fwt.len
        /\ cursor.done => cursor.current = cursor.fwt.len

\* C17 as stated: every operation terminates; on a tree of domain_size
\* n >= 1 each call of add, sum and lower_bound finishes after at most
\* floor(log2(n)) + 2 loop iterations, and a full traversal by either cursor
\* reaches its end after at most n cursor advances.
C17_CallsBounded ==
    /\ (Live /\ fws.inner.len >= 1) =>
          LET t == fws.inner
              B == Log2Floor(t.len) + 2
          IN  /\ \A idx \in 0..(t.len - 1) : add_iterations(t, idx) <= B
              /\ \A range_max \in 0..t.len : sum_iterations(t, range_max) <= B
              /\ \A q \in Queries : lower_bound_iterations(t, q) <= B
    /\ CursorBounded

\* C17, amended: every operation terminates; on a tree of domain_size n >= 1
\* each call of add and of sum, and each of the two loops of a call of
\* lower_bound (the doubling of the step, and the search, whose step halves
\* even when an extension is skipped), finishes after at most
\* floor(log2(n)) + 2 loop iterations, so a call of lower_bound finishes
\* after at most 2 * floor(log2(n)) + 3; a full traversal by either cursor
\* reaches its end after at most n cursor advances.
C17_LoopsBounded ==
    /\ LoopsExample
    /\ (Live /\ fws.inner.len >= 1) => LoopsBounded(fws.inner)
    /\ CursorBounded

\* a traversal that has reached its end on a tree of length 5 or more, after
\* as many advances as the length and having yielded values; on that tree a
\* call of lower_bound runs both loops to their bounds
C17_Witness ==
    /\ cursor.kind # "none"
    /\ cursor.done
    /\ op.name = "next"
    /\ cursor.fwt.len >= 5
    /\ cursor.current = cursor.fwt.len
    /\ Len(cursor.out) >= 2
    /\ lower_bound_grow_iterations(cursor.fwt, 1) = Log2Floor(cursor.fwt.len) + 1
    /\ lower_bound_iterations(cursor.fwt, 1) = (2 * Log2Floor(cursor.fwt.len)) + 3
    /\ add_iterations(cursor.fwt, 0) = Log2Floor(cursor.fwt.len) + 1
    /\ sum_iterations(cursor.fwt, 3) = 2

\* the lowest set bit of i >= 1: the power of two p dividing i with i / p odd
LowestSetBit(i) ==
    CHOOSE p \in 1..i :
        /\ \E k \in 0..i : p = 2 ^ k
        /\ i % p = 0
        /\ (i \div p) % 2 = 1

\* the counters a tree of length n holds for the membership S: at i >= 1 the
\* number of members v with i - lowbit(i) <= v < i, and 0 at 0
canonical_counters(S, n) ==
    [i \in 0..n |->
        IF i = 0 THEN 0
        ELSE Cardinality({v \in S : i - LowestSetBit(i) <= v /\ v < i})]

\* C18: the stored state is history-independent: in every state reachable by
\* insert and remove the counter at each 1-indexed position i in
\* [1, capacity] is the number of present values v with
\* i - lowbit(i) <= v < i, and counter 0 is 0, so the counters and the
\* cardinality are a function of the membership; a successful insert(v)
\* followed by remove(v) restores the exact previous state.
C18_HistoryIndependent ==
    Live =>
        /\ Present(fws) = ref
        /\ fws.inner.inner[0] = 0
        /\ \A i \in 1..fws.max_val_excluded :
              fws.inner.inner[i] =
                  Cardinality({v \in Present(fws) :
                                  i - LowestSetBit(i) <= v /\ v < i})
        /\ fws = [inner |-> [inner |-> canonical_counters(ref, fws.inner.len),
                             len |-> fws.inner.len],
                  num_elements |-> Cardinality(ref),
                  max_val_excluded |-> fws.max_val_excluded]
        /\ \A v \in Elems :
              insert(fws, v).ret =>
                  remove(insert(fws, v).set, v) = [set |-> fws, ret |-> TRUE]

\* after a successful remove, with two values left that share a counter, and
\* with a value that can be inserted and removed again
C18_Witness ==
    /\ Live
    /\ op.name = "remove"
    /\ op.ret
    /\ fws.inner.len >= 4
    /\ fws.inner.inner[4] >= 2
    /\ fws.inner.inner[4] = Cardinality({v \in ref : v < 4})
    /\ insert(fws, op.arg).ret
    /\ insert(fws, op.arg).set # fws
    /\ remove(insert(fws, op.arg).set, op.arg).set = fws

=============================================================================
